---- MODULE Spec2Model ----
(***************************************************************************)
(* Model of sqlacodegen/main.py: the three override-file loaders           *)
(* (load_backref_csv, load_mixins_csv, load_patches_csv) as operators on a *)
(* file system, and main() as a sequence of steps that ends by returning,  *)
(* by an uncaught exception, or with the model rendered.                   *)
(*                                                                         *)
(* An optional Python value is a sequence of length at most one: None is   *)
(* <<>> and a value v is <<v>>.  A dict is a function.  A CSV file is the  *)
(* sequence of rows csv.reader yields for it (a blank line yields the      *)
(* empty row).  An exception is a record of its type and of the pieces     *)
(* its message is formatted from.                                          *)
(***************************************************************************)
EXTENDS Integers, Sequences, FiniteSets, TLC

VARIABLES
    args,             \* the namespace returned by parser.parse_args()
    fs,               \* the files that exist: path -> content
    pc,               \* the position of main(), or of a loader call
    db,               \* the database behind the url, once connected to
    engine,           \* create_engine(args.url)
    reflect_call,     \* the arguments of metadata.reflect(...)
    metadata,         \* the reflected MetaData
    opened,           \* the override files opened for reading
    backrefs_tables,
    mixin_tables,
    patch_table,
    version,
    outfile,          \* what happened to the file named by --outfile
    generator,        \* the arguments CodeGenerator was constructed with
    render_called,
    stdout,
    stderr,
    exc,              \* the exception main() ended with
    result            \* the outcome of a loader called on its own

vars == <<args, fs, pc, db, engine, reflect_call, metadata, opened,
          backrefs_tables, mixin_tables, patch_table, version, outfile,
          generator, render_called, stdout, stderr, exc, result>>

\* Bounds of the loader inputs.
MaxRows == 3
MaxFields == 5

None == <<>>
Some(v) == <<v>>

Range(s) == {s[i] : i \in DOMAIN s}

EmptyDict == [k \in {} |-> None]
DictSet(d, k, v) == [x \in DOMAIN d \cup {k} |-> IF x = k THEN v ELSE d[x]]

\* The outcome of a call: a returned value or a raised exception.
Ok(v) == [ok |-> TRUE, value |-> v, exc |-> None]
Raise(type, msg) == [ok |-> FALSE, value |-> None, exc |-> Some([type |-> type, msg |-> msg])]

Exists(files, path) == path \in DOMAIN files

IndexError == Raise("IndexError", <<"list index out of range">>)
FileDoesNotExist(path) == Raise("Exception", <<"File ", path, " does not exist">>)

-----------------------------------------------------------------------------
\* load_backref_csv

BackRefDescription(sc, tc, name, pj) == <<sc, tc, name, pj>>

RECURSIVE backref_loop(_, _, _)
backref_loop(rows, i, backref_relationships) ==
    IF i > Len(rows) THEN Ok(backref_relationships)
    ELSE LET line == rows[i] IN
         IF line = <<>> THEN backref_loop(rows, i + 1, backref_relationships)
         ELSE IF Len(line) < 3 THEN IndexError
         ELSE LET sc == line[1]
                  tc == line[2]
                  name == line[3]
                  pj == IF Len(line) >= 4 THEN Some(line[4]) ELSE None
              IN backref_loop(rows, i + 1,
                     DictSet(backref_relationships, <<sc, tc>>,
                             BackRefDescription(sc, tc, name, pj)))

load_backref_csv(files, file_path) ==
    IF ~Exists(files, file_path) THEN FileDoesNotExist(file_path)
    ELSE backref_loop(files[file_path], 1, EmptyDict)

-----------------------------------------------------------------------------
\* load_mixins_csv

\* A mixin is recorded for every table, so none is ever found to be a repeat.
HasMixin_never(mixins_for_table, table_name) == FALSE

HasMixin(mixins_for_table, table_name) == table_name \in DOMAIN mixins_for_table

OnlyOneMixin(table_name) ==
    Raise("Exception", <<"Only one mixin per table allowed, got more for ", table_name>>)

RECURSIVE mixins_loop(_, _, _)
mixins_loop(rows, i, mixins_for_table) ==
    IF i > Len(rows) THEN Ok(mixins_for_table)
    ELSE LET line == rows[i] IN
         IF line = <<>> THEN mixins_loop(rows, i + 1, mixins_for_table)
         ELSE LET table_name == line[1] IN
              IF HasMixin(mixins_for_table, table_name) THEN OnlyOneMixin(table_name)
              ELSE IF Len(line) < 3 THEN IndexError
              ELSE mixins_loop(rows, i + 1,
                       DictSet(mixins_for_table, table_name, <<line[2], line[3]>>))

\* A missing mixin file read as a file that assigns no mixin.
load_mixins_csv_lenient(files, file_path) ==
    IF ~Exists(files, file_path) THEN Ok(EmptyDict)
    ELSE mixins_loop(files[file_path], 1, EmptyDict)

load_mixins_csv(files, file_path) ==
    IF ~Exists(files, file_path) THEN FileDoesNotExist(file_path)
    ELSE mixins_loop(files[file_path], 1, EmptyDict)

-----------------------------------------------------------------------------
\* load_patches_csv

\* The name n of the message's f-string is bound nowhere: formatting the
\* message raises NameError before the Exception is constructed.
PatchFileMissing(patch_file, linen) ==
    Raise("NameError", <<"name 'n' is not defined">>)

\* open(patch_file, 'f'): 'f' is no mode of open, which raises ValueError
\* before it opens anything.
OpenPatchFile(files, patch_file) ==
    Raise("ValueError", <<"invalid mode: 'f'">>)

RECURSIVE patches_loop(_, _, _, _)
patches_loop(files, rows, i, patches_per_table) ==
    IF i > Len(rows) THEN Ok(patches_per_table)
    ELSE LET line == rows[i]
             linen == i - 1
         IN
         IF line = <<>> THEN patches_loop(files, rows, i + 1, patches_per_table)
         ELSE IF Len(line) < 2 THEN IndexError
         ELSE LET table == line[1]
                  patch_file == line[2]
              IN
              IF ~Exists(files, patch_file) THEN PatchFileMissing(patch_file, linen)
              ELSE LET pfh == OpenPatchFile(files, patch_file) IN
                   IF ~pfh.ok THEN pfh
                   ELSE LET patch == pfh.value
                            old == IF table \in DOMAIN patches_per_table
                                   THEN patches_per_table[table] ELSE <<>>
                        IN patches_loop(files, rows, i + 1,
                               DictSet(patches_per_table, table, Append(old, patch)))

load_patches_csv(files, file_path) ==
    IF ~Exists(files, file_path) THEN FileDoesNotExist(file_path)
    ELSE patches_loop(files, files[file_path], 1, EmptyDict)

-----------------------------------------------------------------------------
\* The loaders called on their own, on every small override file.

BackrefCol(i) == CASE i = 1 -> {"a", "b"}
                   [] i = 2 -> {"b"}
                   [] i = 3 -> {"n1", "n2"}
                   [] i = 4 -> {"j"}
                   [] i = 5 -> {"1"}
                   [] OTHER -> {"x"}

MixinCol(i) == CASE i = 1 -> {"a", "b"}
                 [] i = 2 -> {"m"}
                 [] i = 3 -> {"c1", "c2"}
                 [] OTHER -> {"x"}

PatchCol(i) == CASE i = 1 -> {"a", "b"}
                 [] i = 2 -> {"p1", "p2"}
                 [] OTHER -> {"x"}

Col(loader, i) == CASE loader = "backref" -> BackrefCol(i)
                    [] loader = "mixins" -> MixinCol(i)
                    [] OTHER -> PatchCol(i)
Fields(loader) == UNION {Col(loader, i) : i \in 1..MaxFields}
RowsOf(loader) ==
    UNION {{r \in [1..n -> Fields(loader)] : \A i \in 1..n : r[i] \in Col(loader, i)} :
              n \in 0..MaxFields}
CSVs(Rows) == UNION {[1..n -> Rows] : n \in 0..MaxRows}

PatchFiles == {"p1", "p2"}
PatchText(p) == IF p = "p1" THEN "    x = 1\n" ELSE "    y = 2\n"

CsvPath == "override.csv"

Idle ==
    /\ args = None
    /\ db = None
    /\ engine = None
    /\ reflect_call = None
    /\ metadata = None
    /\ opened = {}
    /\ backrefs_tables = None
    /\ mixin_tables = None
    /\ patch_table = None
    /\ version = None
    /\ outfile = "untouched"
    /\ generator = None
    /\ render_called = FALSE
    /\ stdout = <<>>
    /\ stderr = <<>>
    /\ exc = None
    /\ result = None

Call(r) ==
    /\ pc = "call"
    /\ pc' = "called"
    /\ result' = Some(r)
    /\ UNCHANGED <<args, fs, db, engine, reflect_call, metadata, opened,
                   backrefs_tables, mixin_tables, patch_table, version, outfile,
                   generator, render_called, stdout, stderr, exc>>

InitBackref ==
    /\ Idle
    /\ pc = "call"
    /\ fs \in {EmptyDict} \cup {(CsvPath :> csv) : csv \in CSVs(RowsOf("backref"))}
CallLoadBackref == Call(load_backref_csv(fs, CsvPath))
SpecBackref == InitBackref /\ [][CallLoadBackref]_vars

InitMixins ==
    /\ Idle
    /\ pc = "call"
    /\ fs \in {EmptyDict} \cup {(CsvPath :> csv) : csv \in CSVs(RowsOf("mixins"))}
CallLoadMixins == Call(load_mixins_csv(fs, CsvPath))
SpecMixins == InitMixins /\ [][CallLoadMixins]_vars

InitPatches ==
    /\ Idle
    /\ pc = "call"
    /\ \E present \in SUBSET PatchFiles :
         fs \in {[p \in present |-> PatchText(p)]}
                \cup {(CsvPath :> csv) @@ [p \in present |-> PatchText(p)] :
                         csv \in CSVs(RowsOf("patches"))}
CallLoadPatches == Call(load_patches_csv(fs, CsvPath))
SpecPatches == InitPatches /\ [][CallLoadPatches]_vars

-----------------------------------------------------------------------------
\* main()

Flags == {"noindexes", "noconstraints", "nojoined", "noinflect", "noclasses", "nocomments"}
FlagChoices == {{}, Flags} \cup {{f} : f \in Flags}

Url == "sqlite:///app.db"
PackageVersion == "version.public"
MustSupplyUrl == "You must supply a url\n"
HelpText == "usage: sqlacodegen [-h] [url] ..."
OutPath == "models.py"

\* A string is the sequence of its pieces; "," is the piece str.split cuts at.
RECURSIVE Split(_, _)
Split(str, sep) ==
    IF \A k \in DOMAIN str : str[k] # sep THEN <<str>>
    ELSE LET k == CHOOSE x \in DOMAIN str :
                      str[x] = sep /\ \A y \in 1..(x - 1) : str[y] # sep
         IN <<SubSeq(str, 1, k - 1)>> \o Split(SubSeq(str, k + 1, Len(str)), sep)
Text(piece) == IF piece = <<>> THEN "" ELSE piece[1]

\* The override files main() is run on.
MainFiles ==
    [p \in {"backref.csv", "backref_short.csv", "mixins.csv", "mixins_twice.csv",
            "patches_blank.csv", "patches.csv", "p1"} |->
        CASE p = "backref.csv" -> <<<<"a", "b", "n1">>, <<"b", "a", "n2", "j">>>>
          [] p = "backref_short.csv" -> <<<<"a", "b">>>>
          [] p = "mixins.csv" -> <<<<"a", "m", "c1">>, <<>>, <<"b", "m", "c2">>>>
          [] p = "mixins_twice.csv" -> <<<<"a", "m", "c1">>, <<"a", "m", "c2">>>>
          [] p = "patches_blank.csv" -> <<<<>>>>
          [] p = "patches.csv" -> <<<<"a", "p1">>>>
          [] OTHER -> PatchText(p)]

BackrefFileArgs == {None, Some("no_backref.csv"), Some("backref_short.csv"), Some("backref.csv")}
MixinFileArgs == {None, Some("no_mixins.csv"), Some("mixins_twice.csv"), Some("mixins.csv")}
PatchFileArgs == {None, Some("no_patches.csv"), Some("patches.csv"), Some("patches_blank.csv")}

Args ==
    [version : BOOLEAN,
     url : {None, Some(""), Some(Url)},
     schema : {None, Some("s")},
     tables : {None, Some(<<>>), Some(<<"a">>), Some(<<"a", ",", "version">>)},
     noviews : BOOLEAN,
     flags : FlagChoices,
     outfile : {None, Some(OutPath)},
     table_backref_file : BackrefFileArgs,
     add_version : BOOLEAN,
     table_mixins : MixinFileArgs,
     table_patches : PatchFileArgs]

\* The databases a url may lead to: the tables and views of the schema asked
\* for, and the rows of its "version" table.
DBs ==
    {[reachable |-> FALSE, tables |-> {}, views |-> {}, version_rows |-> <<>>],
     [reachable |-> TRUE, tables |-> {"a", "b"}, views |-> {"v"}, version_rows |-> <<>>],
     [reachable |-> TRUE, tables |-> {"a", "b", "version"}, views |-> {"v"},
      version_rows |-> <<>>],
     [reachable |-> TRUE, tables |-> {"a", "b", "version"}, views |-> {"v"},
      version_rows |-> <<<<"1.4", "notes">>>>]}

\* Python's truth of an optional string: None and "" are false.
Truthy(opt) == opt # None /\ opt[1] # ""
\* The same of a string given by its pieces.
TruthyPieces(opt) == opt # None /\ opt[1] # <<>>

\* if not args.url, written as a test for None only.
UrlMissing_none_only(a) == a.url = None

UrlMissing(a) == ~Truthy(a.url)

\* The views argument of reflect without the negation.
ReflectViews_same(a) == a.noviews

ReflectViews(a) == ~a.noviews

ReflectOnly(a) ==
    IF TruthyPieces(a.tables)
    THEN Some([k \in DOMAIN Split(a.tables[1], ",") |-> Text(Split(a.tables[1], ",")[k])])
    ELSE None

\* MetaData keys a table by its name, qualified by the schema when one is given.
TableKey(name, schema) == IF schema = None THEN <<name>> ELSE <<schema[1], name>>

\* MetaData.reflect(bind, schema, views, only)
Reflect(d, schema, views, only) ==
    IF ~d.reachable THEN Raise("OperationalError", <<"unable to open database">>)
    ELSE LET available == d.tables \cup (IF views THEN d.views ELSE {})
             load == IF only = None THEN available ELSE Range(only[1])
         IN IF ~(load \subseteq available)
            THEN Raise("InvalidRequestError", <<"Could not reflect: requested table(s) not available">>)
            ELSE Ok([key \in {TableKey(n, schema) : n \in load} |->
                        [name |-> key[Len(key)], is_view |-> key[Len(key)] \in d.views]])

\* session.query(metadata.tables["version"]).all()[0][0]
QueryVersion(md, d) ==
    IF <<"version">> \notin DOMAIN md THEN Raise("KeyError", <<"version">>)
    ELSE IF d.version_rows = <<>> THEN IndexError
    ELSE Ok(d.version_rows[1][1])

\* What constructing the generator and rendering may do: the generator is
\* specified to fail on an override or a schema it cannot resolve.
CodeGeneratorOutcomes == {"constructed", "raises"}
RenderOutcomes == {"complete", "raises_unwritten", "raises_partial"}

InitMain ==
    /\ args \in Args
    /\ fs = MainFiles
    /\ pc = "check_version"
    /\ db = None
    /\ engine = None
    /\ reflect_call = None
    /\ metadata = None
    /\ opened = {}
    /\ backrefs_tables = None
    /\ mixin_tables = None
    /\ patch_table = None
    /\ version = None
    /\ outfile = "untouched"
    /\ generator = None
    /\ render_called = FALSE
    /\ stdout = <<>>
    /\ stderr = <<>>
    /\ exc = None
    /\ result = None

CheckVersion ==
    /\ pc = "check_version"
    /\ IF args.version
       THEN /\ stdout' = Append(stdout, PackageVersion)
            /\ pc' = "returned"
       ELSE /\ pc' = "check_url"
            /\ UNCHANGED stdout
    /\ UNCHANGED <<args, fs, db, engine, reflect_call, metadata, opened,
                   backrefs_tables, mixin_tables, patch_table, version, outfile,
                   generator, render_called, stderr, exc, result>>

CheckUrl ==
    /\ pc = "check_url"
    /\ IF UrlMissing(args)
       THEN /\ stderr' = Append(stderr, MustSupplyUrl)
            /\ stdout' = Append(stdout, HelpText)
            /\ pc' = "returned"
       ELSE /\ pc' = "reflect"
            /\ UNCHANGED <<stdout, stderr>>
    /\ UNCHANGED <<args, fs, db, engine, reflect_call, metadata, opened,
                   backrefs_tables, mixin_tables, patch_table, version, outfile,
                   generator, render_called, exc, result>>

ReflectSchema ==
    /\ pc = "reflect"
    /\ engine' = Some(args.url[1])
    /\ \E d \in DBs :
         LET tables == ReflectOnly(args)
             views == ReflectViews(args)
             r == Reflect(d, args.schema, views, tables)
         IN /\ db' = Some(d)
            /\ reflect_call' = Some([bind |-> args.url[1], schema |-> args.schema,
                                     views |-> views, only |-> tables])
            /\ IF r.ok
               THEN metadata' = Some(r.value) /\ pc' = "backrefs" /\ UNCHANGED exc
               ELSE exc' = r.exc /\ pc' = "error" /\ UNCHANGED metadata
    /\ UNCHANGED <<args, fs, opened, backrefs_tables, mixin_tables, patch_table,
                   version, outfile, generator, render_called, stdout, stderr, result>>

LoadBackrefs ==
    /\ pc = "backrefs"
    /\ IF Truthy(args.table_backref_file)
       THEN LET backref_file == args.table_backref_file[1]
                r == load_backref_csv(fs, backref_file)
            IN /\ opened' = IF Exists(fs, backref_file)
                            THEN opened \cup {backref_file} ELSE opened
               /\ IF r.ok
                  THEN backrefs_tables' = Some(r.value) /\ pc' = "mixins" /\ UNCHANGED exc
                  ELSE exc' = r.exc /\ pc' = "error" /\ UNCHANGED backrefs_tables
       ELSE pc' = "mixins" /\ UNCHANGED <<opened, backrefs_tables, exc>>
    /\ UNCHANGED <<args, fs, db, engine, reflect_call, metadata, mixin_tables,
                   patch_table, version, outfile, generator, render_called,
                   stdout, stderr, result>>

LoadMixins ==
    /\ pc = "mixins"
    /\ IF Truthy(args.table_mixins)
       THEN LET mixin_file == args.table_mixins[1]
                r == load_mixins_csv(fs, mixin_file)
            IN /\ opened' = IF Exists(fs, mixin_file)
                            THEN opened \cup {mixin_file} ELSE opened
               /\ IF r.ok
                  THEN mixin_tables' = Some(r.value) /\ pc' = "patches" /\ UNCHANGED exc
                  ELSE exc' = r.exc /\ pc' = "error" /\ UNCHANGED mixin_tables
       ELSE pc' = "patches" /\ UNCHANGED <<opened, mixin_tables, exc>>
    /\ UNCHANGED <<args, fs, db, engine, reflect_call, metadata, backrefs_tables,
                   patch_table, version, outfile, generator, render_called,
                   stdout, stderr, result>>

LoadPatches ==
    /\ pc = "patches"
    /\ IF Truthy(args.table_patches)
       THEN LET table_patches_file == args.table_patches[1]
                r == load_patches_csv(fs, table_patches_file)
            IN /\ opened' = IF Exists(fs, table_patches_file)
                            THEN opened \cup {table_patches_file} ELSE opened
               /\ IF r.ok
                  THEN patch_table' = Some(r.value) /\ pc' = "add_version" /\ UNCHANGED exc
                  ELSE exc' = r.exc /\ pc' = "error" /\ UNCHANGED patch_table
       ELSE pc' = "add_version" /\ UNCHANGED <<opened, patch_table, exc>>
    /\ UNCHANGED <<args, fs, db, engine, reflect_call, metadata, backrefs_tables,
                   mixin_tables, version, outfile, generator, render_called,
                   stdout, stderr, result>>

AddVersion ==
    /\ pc = "add_version"
    /\ IF args.add_version
       THEN LET r == QueryVersion(metadata[1], db[1])
            IN IF r.ok
               THEN version' = Some(r.value) /\ pc' = "open" /\ UNCHANGED exc
               ELSE exc' = r.exc /\ pc' = "error" /\ UNCHANGED version
       ELSE pc' = "open" /\ UNCHANGED <<version, exc>>
    /\ UNCHANGED <<args, fs, db, engine, reflect_call, metadata, opened,
                   backrefs_tables, mixin_tables, patch_table, outfile, generator,
                   render_called, stdout, stderr, result>>

\* io.open(args.outfile, 'w') creates or truncates the file, or fails (a
\* directory that is missing or not writable) and leaves nothing behind.
OpenOutfile ==
    /\ pc = "open"
    /\ IF Truthy(args.outfile)
       THEN \E can_open \in BOOLEAN :
              IF can_open
              THEN outfile' = "truncated" /\ pc' = "construct" /\ UNCHANGED exc
              ELSE /\ exc' = Raise("FileNotFoundError", <<"No such file or directory: ",
                                                          args.outfile[1]>>).exc
                   /\ pc' = "error"
                   /\ UNCHANGED outfile
       ELSE pc' = "construct" /\ UNCHANGED <<outfile, exc>>
    /\ UNCHANGED <<args, fs, db, engine, reflect_call, metadata, opened,
                   backrefs_tables, mixin_tables, patch_table, version, generator,
                   render_called, stdout, stderr, result>>

Construct ==
    /\ pc = "construct"
    /\ \E o \in CodeGeneratorOutcomes :
         IF o = "constructed"
         THEN /\ generator' = Some([metadata |-> metadata[1],
                                    noindexes |-> "noindexes" \in args.flags,
                                    noconstraints |-> "noconstraints" \in args.flags,
                                    nojoined |-> "nojoined" \in args.flags,
                                    noinflect |-> "noinflect" \in args.flags,
                                    noclasses |-> "noclasses" \in args.flags,
                                    backrefs_tables |-> backrefs_tables,
                                    model_version |-> version,
                                    nocomments |-> "nocomments" \in args.flags,
                                    mixin_table |-> mixin_tables,
                                    patch_table |-> patch_table])
              /\ pc' = "render"
              /\ UNCHANGED exc
         ELSE /\ exc' = Raise("Exception", <<"CodeGenerator">>).exc
              /\ pc' = "error"
              /\ UNCHANGED generator
    /\ UNCHANGED <<args, fs, db, engine, reflect_call, metadata, opened,
                   backrefs_tables, mixin_tables, patch_table, version, outfile,
                   render_called, stdout, stderr, result>>

Render ==
    /\ pc = "render"
    /\ render_called' = TRUE
    /\ \E o \in RenderOutcomes :
         LET written == CASE o = "complete" -> "complete"
                          [] o = "raises_partial" -> "partial"
                          [] OTHER -> "nothing"
         IN /\ IF Truthy(args.outfile)
               THEN /\ outfile' = IF written = "nothing" THEN outfile ELSE written
                    /\ UNCHANGED stdout
               ELSE /\ stdout' = IF written = "nothing" THEN stdout
                                 ELSE Append(stdout, written)
                    /\ UNCHANGED outfile
            /\ IF o = "complete"
               THEN pc' = "done" /\ UNCHANGED exc
               ELSE exc' = Raise("Exception", <<"render">>).exc /\ pc' = "error"
    /\ UNCHANGED <<args, fs, db, engine, reflect_call, metadata, opened,
                   backrefs_tables, mixin_tables, patch_table, version, generator,
                   stderr, result>>

NextMain ==
    \/ CheckVersion
    \/ CheckUrl
    \/ ReflectSchema
    \/ LoadBackrefs
    \/ LoadMixins
    \/ LoadPatches
    \/ AddVersion
    \/ OpenOutfile
    \/ Construct
    \/ Render

SpecMain == InitMain /\ [][NextMain]_vars
Spec == SpecMain

-----------------------------------------------------------------------------
\* Properties of the loaders.

Called == pc = "called" /\ Exists(fs, CsvPath)
CsvRows == fs[CsvPath]
Outcome == result[1]
Message == Outcome.exc[1].msg
NonEmpty(rows) == {i \in DOMAIN rows : rows[i] # <<>>}
TablesOf(rows) == {rows[i][1] : i \in NonEmpty(rows)}
RepeatedTables(rows) ==
    {rows[i][1] : i \in {k \in NonEmpty(rows) :
                            \E j \in NonEmpty(rows) : j # k /\ rows[j][1] = rows[k][1]}}
AtLeastFields(rows, n) == \A i \in NonEmpty(rows) : Len(rows[i]) >= n

MixinsAsClaimed(rows, r) ==
    IF RepeatedTables(rows) # {}
    THEN /\ ~r.ok
         /\ \E t \in RepeatedTables(rows) : t \in Range(r.exc[1].msg)
    ELSE /\ r.ok
         /\ DOMAIN r.value = TablesOf(rows)
         /\ \A i \in NonEmpty(rows) :
                /\ Len(rows[i]) >= 3
                /\ r.value[rows[i][1]] = <<rows[i][2], rows[i][3]>>

\* C1, as stated: for every mixin CSV, a table named by two or more non-empty
\* rows makes load_mixins_csv end with an error naming such a table and return
\* no mapping; without a repeat it returns exactly one (module, class) pair per
\* table, taken from the table's row.
C1_EveryMixinCsv == Called => MixinsAsClaimed(CsvRows, Outcome)

\* C1, amended: the same, for every mixin CSV whose non-empty rows all have at
\* least three fields (table, module, class name).
C1_MixinsOnePerTable ==
    (Called /\ AtLeastFields(CsvRows, 3)) => MixinsAsClaimed(CsvRows, Outcome)

\* C1 witness: two rows give the same table different mixins, and the call
\* ended with the error instead of the second row's pair.
C1_Witness ==
    /\ Called
    /\ AtLeastFields(CsvRows, 3)
    /\ \E i, j \in NonEmpty(CsvRows) :
           /\ i < j
           /\ CsvRows[i][1] = CsvRows[j][1]
           /\ CsvRows[i][3] # CsvRows[j][3]
    /\ ~Outcome.ok
    /\ Outcome.exc[1].type = "Exception"

\* The record load_backref_csv builds from one row.
RecordOfRow(line) ==
    BackRefDescription(line[1], line[2], line[3],
                       IF Len(line) >= 4 THEN Some(line[4]) ELSE None)

\* C2: the table returned by load_backref_csv keeps the record of every
\* non-empty row: rows that share a (source table, target table) pair all have
\* their record in the result for that pair.
C2_AllRecordsKept ==
    (Called /\ Outcome.ok) =>
        \A i \in NonEmpty(CsvRows) :
            LET line == CsvRows[i] IN
            /\ <<line[1], line[2]>> \in DOMAIN Outcome.value
            /\ Outcome.value[<<line[1], line[2]>>] = RecordOfRow(line)

LastRowOf(rows, key) ==
    CHOOSE i \in NonEmpty(rows) :
        /\ <<rows[i][1], rows[i][2]>> = key
        /\ \A j \in NonEmpty(rows) : <<rows[j][1], rows[j][2]>> = key => j <= i

\* C7: each record load_backref_csv returns carries, of the row it was built
\* from, the override name, the join condition when the row has one (None
\* otherwise), and the forced-singular flag when the row has one.
C7_RecordCarriesRow ==
    (Called /\ Outcome.ok) =>
        \A key \in DOMAIN Outcome.value :
            LET line == CsvRows[LastRowOf(CsvRows, key)]
                rec == Outcome.value[key]
            IN /\ rec[3] = line[3]
               /\ rec[4] = IF Len(line) >= 4 THEN Some(line[4]) ELSE None
               /\ Len(line) >= 5 => (Len(rec) >= 5 /\ rec[5] = Some(line[5]))

AllPatchFilesExist(rows) ==
    \A i \in NonEmpty(rows) : Len(rows[i]) >= 2 /\ Exists(fs, rows[i][2])

PatchesFor(rows, t) ==
    LET IsFor(line) == line # <<>> /\ line[1] = t
        mine == SelectSeq(rows, IsFor)
    IN [k \in 1..Len(mine) |-> fs[mine[k][2]]]

\* C3: for a patch CSV whose non-empty rows all name patch files that exist,
\* load_patches_csv returns the mapping of each table to the contents of its
\* patch files in the order of the rows, and of no other table.
C3_PatchesInFileOrder ==
    (Called /\ AllPatchFilesExist(CsvRows)) =>
        /\ Outcome.ok
        /\ DOMAIN Outcome.value = TablesOf(CsvRows)
        /\ \A t \in TablesOf(CsvRows) : Outcome.value[t] = PatchesFor(CsvRows, t)

\* C6: when the first non-empty row of the patch CSV names a patch file that
\* does not exist, load_patches_csv ends with an error whose message gives
\* that patch file and the line of the CSV the row is on.
C6_MissingPatchFileNamed ==
    Called =>
        \A i \in NonEmpty(CsvRows) :
            (/\ \A j \in NonEmpty(CsvRows) : i <= j
             /\ Len(CsvRows[i]) >= 2
             /\ ~Exists(fs, CsvRows[i][2]))
            => /\ ~Outcome.ok
               /\ CsvRows[i][2] \in Range(Message)
               /\ (ToString(i) \in Range(Message) \/ ToString(i - 1) \in Range(Message))

-----------------------------------------------------------------------------
\* Properties of main().

Terminal == pc \in {"returned", "error", "done"}
Given(opt) == opt # None /\ opt[1] # ""
NamesMissingFile(opt) == Given(opt) /\ opt[1] \notin DOMAIN fs
GeneratorNotRun == generator = None /\ ~render_called /\ outfile = "untouched"
NothingStarted ==
    /\ engine = None
    /\ db = None
    /\ reflect_call = None
    /\ metadata = None
    /\ opened = {}
    /\ GeneratorNotRun
EndsNaming(path) == pc = "error" /\ path \in Range(exc[1].msg)

\* How far main() got: past reflection, and past each of the loads.
ReachedBackrefs == metadata # None /\ pc # "backrefs"
ReachedMixins ==
    /\ ReachedBackrefs
    /\ Given(args.table_backref_file) => backrefs_tables # None
    /\ pc # "mixins"
ReachedPatches ==
    /\ ReachedMixins
    /\ Given(args.table_mixins) => mixin_tables # None
    /\ pc # "patches"
ReachedAddVersion ==
    /\ ReachedPatches
    /\ Given(args.table_patches) => patch_table # None
    /\ pc # "add_version"

\* C4: a run of main() that ends with an error has not created, truncated or
\* written the file named by --outfile.
C4_FailedRunNoOutput == (pc = "error" /\ Given(args.outfile)) => outfile = "untouched"

\* C5, as stated: when an override option names a file that does not exist,
\* main() ends with an error naming that file, and the generator is never
\* constructed, render never called and the output file never opened.
C5_MissingFileAlwaysNamed ==
    \A opt \in {args.table_backref_file, args.table_mixins, args.table_patches} :
        NamesMissingFile(opt) =>
            /\ GeneratorNotRun
            /\ Terminal => EndsNaming(opt[1])

\* C5, amended: when an override option names a file that does not exist, the
\* generator is never constructed, render never called, the output file never
\* opened and the run never completes; and a run that gets as far as loading
\* that file ends with an error naming it.
C5_MissingFileStopsRun ==
    /\ \A opt \in {args.table_backref_file, args.table_mixins, args.table_patches} :
           NamesMissingFile(opt) => (GeneratorNotRun /\ pc # "done")
    /\ (NamesMissingFile(args.table_backref_file) /\ ReachedBackrefs)
           => EndsNaming(args.table_backref_file[1])
    /\ (NamesMissingFile(args.table_mixins) /\ ReachedMixins)
           => EndsNaming(args.table_mixins[1])
    /\ (NamesMissingFile(args.table_patches) /\ ReachedPatches)
           => EndsNaming(args.table_patches[1])

\* C5 witness: the back-reference file was loaded, the mixin file is missing,
\* and the run ended naming the mixin file with an output file asked for.
C5_Witness ==
    /\ backrefs_tables # None
    /\ NamesMissingFile(args.table_mixins)
    /\ NamesMissingFile(args.table_patches)
    /\ EndsNaming(args.table_mixins[1])
    /\ Given(args.outfile)
    /\ outfile = "untouched"

NoUrlGiven == args.url = None \/ args.url = Some("")

ViewsOf(md) == {key \in DOMAIN md : md[key].is_view}

C10_VersionHandedOver ==
    /\ (args.add_version /\ ReachedAddVersion /\ db[1].version_rows # <<>>) =>
           /\ version = Some(db[1].version_rows[1][1])
           /\ generator # None => generator[1].model_version = version
    /\ ~args.add_version =>
           /\ version = None
           /\ generator # None => generator[1].model_version = None

====
